---- MODULE Spec2Model ----
(***************************************************************************)
(* One HTTP request travelling through the Monoscope middleware, either    *)
(* the Gorilla Mux adapter (gorilla/gorilla.go) or the Fiber adapter       *)
(* (fiber/fiber.go).  The downstream handler is the environment: it reads  *)
(* the request body, sets headers, writes status and body, reports errors, *)
(* and finally returns or panics.                                          *)
(***************************************************************************)
EXTENDS Integers, Sequences, FiniteSets, TLC

\* ---------------------------------------------------------------- bounds
MaxCalls == 2     \* most WriteHeader/Write (Status/Write) calls of a handler
MaxErrors == 1    \* most ReportError calls of a handler
MaxPasses == 2    \* most successive redactions of one body
MaxLate == 1      \* most ReportError calls made after the payload was built
MaxWorkers == 2   \* goroutines a handler starts, each calling ReportError once

\* ------------------------------------------------------------- constants
StatusOK == 200                   \* http.StatusOK
StatusInternalServerError == 500  \* the literal of the Fiber panic path

\* Final (non-informational) status codes a handler sets.
StatusCodes == {201, 404}
\* Request bodies a client sends.
ClientBodies == {<< >>, <<"p", "q">>}
\* Byte slices a handler passes to one Write.
Chunks == {<< >>, <<"x">>, <<"y">>}
\* Response header names a handler sets.
HeaderNames == {"X-Secret"}
\* Header names of the request, in the client's spelling.
RequestHeader == {"X-SECRET", "Content-Type"}
\* Messages of errors the handler reports or panics with.
Messages == {"boom"}

NoPanic == [typ |-> "none", msg |-> ""]
\* Values a handler panics with: an error, a string, a value of another type.
PanicValues == [typ : {"error", "string", "other"}, msg : Messages]
NoErr == [typ |-> "nil", msg |-> ""]
\* Values a Fiber handler returns from ctx.Next().
ReturnValues == {NoErr} \cup [typ : {"error"}, msg : Messages]

VARIABLES
  fw,          \* "gorilla" or "fiber": the adapter serving the request
  config,      \* Config of the middleware instance
  client,      \* the request body stream as the client sent it
  pc,          \* position of the middleware in the request
  span,        \* "none", "open", "ended"
  attached,    \* payloads attached to the span by CreateSpan, in order
  errorList,   \* errorList of the request
  reqBody,     \* req.Body as the handler sees it: [data, pos, failAt]
  reqBuf,      \* reqBuf of the Gorilla middleware
  handlerRead, \* bytes the handler has read from req.Body
  readState,   \* "reading", "eof", "err": how the handler's reading stands
  rec,         \* the responseRecorder (Gorilla)
  wire,        \* calls received by the underlying ResponseWriter, in order
  calls,       \* calls the handler made on its response, in order
  resHeader,   \* header map of the response
  fresp,       \* ctx.Response() of Fiber: [status, body]
  respHeaders, \* respHeaders snapshot of the Fiber middleware
  payload,     \* the payload variable of the middleware
  panicking,   \* the panic value propagating, or NoPanic
  thrown,      \* the value the handler panicked with, or NoPanic
  handlerErr,  \* the error the handler returned
  reported,    \* errors the handler reported through ReportError, in order
  recovered,   \* err of the deferred closure of the Fiber middleware
  result,      \* what the middleware returned to the framework
  rin,         \* redaction on its own: the body and the paths given to it
  rout,        \* redaction on its own: the results of successive passes
  reqs,        \* concurrent requests: the locals of each request's closure
  gor,         \* concurrent requests: the goroutines of each handler
  heap,        \* concurrent requests: the error lists, by address
  uuids        \* concurrent requests: how many uuid.New() calls were made

vars == <<fw, config, client, pc, span, attached, errorList, reqBody, reqBuf,
          handlerRead, readState, rec, wire, calls, resHeader, fresp,
          respHeaders, payload, panicking, thrown, handlerErr, reported,
          recovered, result, rin, rout, reqs, gor, heap, uuids>>

\* The variables of the redaction engine taken on its own.
redactVars == <<rin, rout>>

\* The variables of the requests run concurrently.
concVars == <<reqs, gor, heap, uuids>>

\* The variables of the middleware.
mwVars == <<fw, config, client, pc, span, attached, errorList, reqBody, reqBuf,
            handlerRead, readState, rec, wire, calls, resHeader, fresp,
            respHeaders, payload, panicking, thrown, handlerErr, reported,
            recovered, result>>

NoPayload == [sdk |-> "none"]
\* No body has been handed to the redaction engine.
NoInput == [body |-> [kind |-> "none", text |-> "", fields |-> {}], paths |-> {}]
NoResult == [typ |-> "pending", msg |-> ""]
\* The Gorilla handler function has no return value.
Void == [typ |-> "void", msg |-> ""]

\* ------------------------------------------------------- request body
\* A body stream: data, read position, and the position at which a Read
\* fails (-1: never).
Stream(data, failAt) == [data |-> data, pos |-> 0, failAt |-> failAt]

\* A Read of stream s will fail before reaching EOF.
Fails(s) == s.failAt >= s.pos /\ s.failAt <= Len(s.data)

\* How far a reader gets on stream s from its current position.
ReadLimit(s) == IF Fails(s) THEN s.failAt ELSE Len(s.data)

ReadError == [typ |-> "error", msg |-> "read failed"]

\* io.ReadAll(req.Body): the bytes up to EOF or the first error, the error,
\* and the stream as it is left.
ReadAll(s) ==
  [data |-> [i \in 1..(ReadLimit(s) - s.pos) |-> s.data[s.pos + i]],
   err |-> IF Fails(s) THEN ReadError ELSE NoErr,
   rest |-> [s EXCEPT !.pos = ReadLimit(s)]]

\* Faulty variant: the handler is given a reader that is already drained.
NopCloserDrained(buf) == [data |-> buf, pos |-> Len(buf), failAt |-> -1]

\* bytes.NewBuffer(reqBuf) behind io.NopCloser: a fresh stream over the copy.
NopCloser(buf) == Stream(buf, -1)

\* ------------------------------------------------------ responseRecorder
NewRecorder(captureBody) ==
  [body |-> << >>, statusCode |-> 0, status |-> FALSE, captureBody |-> captureBody]

WireHeader(code) == [op |-> "WriteHeader", code |-> code, bytes |-> << >>]
WireWrite(b) == [op |-> "Write", code |-> 0, bytes |-> b]

\* Faulty variant: every WriteHeader records and forwards its code.
WriteHeaderLastWins(r, w, code) ==
  [rec |-> [r EXCEPT !.status = TRUE, !.statusCode = code],
   wire |-> Append(w, WireHeader(code))]

\* Faulty variant: a later WriteHeader is not forwarded but is recorded.
WriteHeaderRecordsLast(r, w, code) ==
  IF ~r.status
    THEN [rec |-> [r EXCEPT !.status = TRUE, !.statusCode = code],
          wire |-> Append(w, WireHeader(code))]
    ELSE [rec |-> [r EXCEPT !.statusCode = code], wire |-> w]

\* (r *responseRecorder) WriteHeader on recorder r over underlying writer w.
WriteHeader(r, w, code) ==
  IF ~r.status
    THEN [rec |-> [r EXCEPT !.status = TRUE, !.statusCode = code],
          wire |-> Append(w, WireHeader(code))]
    ELSE [rec |-> r, wire |-> w]

\* Faulty variant: Write records no implicit status.
WriteNoImplicitStatus(r, w, b) ==
  LET r1 == IF r.captureBody THEN [r EXCEPT !.body = r.body \o b] ELSE r
  IN [rec |-> r1, wire |-> Append(w, WireWrite(b))]

\* Faulty variant: Write forwards the bytes only when it captures them.
WriteForwardsCaptured(r, w, b) ==
  LET r1 == IF r.captureBody THEN [r EXCEPT !.body = r.body \o b] ELSE r
      s == IF ~r1.status THEN WriteHeader(r1, w, StatusOK)
                         ELSE [rec |-> r1, wire |-> w]
  IN [rec |-> s.rec,
      wire |-> IF r.captureBody THEN Append(s.wire, WireWrite(b)) ELSE s.wire]

\* Faulty variant: Write forwards the bytes before the implicit status.
WriteBytesFirst(r, w, b) ==
  LET r1 == IF r.captureBody THEN [r EXCEPT !.body = r.body \o b] ELSE r
      w1 == Append(w, WireWrite(b))
  IN IF ~r1.status THEN WriteHeader(r1, w1, StatusOK)
                   ELSE [rec |-> r1, wire |-> w1]

\* Faulty variant: Write buffers the bytes whatever captureBody says.
WriteAlwaysBuffers(r, w, b) ==
  LET r1 == [r EXCEPT !.body = r.body \o b]
      s == IF ~r1.status THEN WriteHeader(r1, w, StatusOK)
                         ELSE [rec |-> r1, wire |-> w]
  IN [rec |-> s.rec, wire |-> Append(s.wire, WireWrite(b))]

\* (r *responseRecorder) Write.
Write(r, w, b) ==
  LET r1 == IF r.captureBody THEN [r EXCEPT !.body = r.body \o b] ELSE r
      s == IF ~r1.status THEN WriteHeader(r1, w, StatusOK)
                         ELSE [rec |-> r1, wire |-> w]
  IN [rec |-> s.rec, wire |-> Append(s.wire, WireWrite(b))]

\* Faulty variant: StatusCode without the default.
StatusCodeRaw(r) == r.statusCode

\* (r *responseRecorder) StatusCode.
StatusCode(r) == IF r.statusCode = 0 THEN StatusOK ELSE r.statusCode

\* ------------------------------------------------- concurrent requests
\* The requests served at the same time by one middleware instance, the body
\* each client sends and the bytes each handler writes.
Reqs == {1, 2}
BodyOf == (1 :> <<"p">>) @@ (2 :> <<"q">>)
RespOf == (1 :> <<"x">>) @@ (2 :> <<"y">>)

\* The goroutines a handler starts.
Workers == 1..MaxWorkers

\* The locals of a request's closure before the request is served.
NewRequest ==
  [pc |-> "start", span |-> "none", msgID |-> 0, list |-> 0, reqBuf |-> << >>,
   rec |-> NewRecorder(FALSE), wire |-> << >>,
   fresp |-> [status |-> StatusOK, body |-> << >>],
   code |-> 0, payload |-> NoPayload, attached |-> << >>]

\* A goroutine that has not called ReportError yet.
NewWorker == [pc |-> "ready", tmp |-> << >>]

\* ------------------------------------------------------------------ Init
Configs ==
  [CaptureRequestBody : BOOLEAN, CaptureResponseBody : BOOLEAN,
   RedactHeaders : {{}, {"X-Secret"}, {"x-secret"}}]

Init ==
  /\ fw \in {"gorilla", "fiber"}
  /\ config \in Configs
  /\ \E data \in ClientBodies :
       \E f \in {-1} \cup 0..Len(data) : client = Stream(data, f)
  /\ pc = "start"
  /\ span = "none"
  /\ attached = << >>
  /\ errorList = << >>
  /\ reqBody = client
  /\ reqBuf = << >>
  /\ handlerRead = << >>
  /\ readState = "reading"
  /\ rec = NewRecorder(FALSE)
  /\ wire = << >>
  /\ calls = << >>
  /\ resHeader = {}
  /\ fresp = [status |-> StatusOK, body |-> << >>]
  /\ respHeaders = {}
  /\ payload = NoPayload
  /\ panicking = NoPanic
  /\ thrown = NoPanic
  /\ handlerErr = NoErr
  /\ reported = << >>
  /\ recovered = NoPanic
  /\ result = NoResult
  /\ rin = NoInput
  /\ rout = << >>
  /\ reqs = [r \in Reqs |-> NewRequest]
  /\ gor = [r \in Reqs |-> [w \in Workers |-> NewWorker]]
  /\ heap = << >>
  /\ uuids = 0

\* ------------------------------------------------- the apt root package
\* apt.BuildError: the ATError of an error, by its message.
BuildError(err) == [message |-> err.msg]

\* apt.ReportError(ctx, err) with ctx carrying the error list: append.
ReportError(list, err) ==
  IF err.typ = "nil" THEN list ELSE Append(list, BuildError(err))

\* strings.ToLower on a header name.
ToLower(name) ==
  CASE name \in {"X-Secret", "x-secret", "X-SECRET"} -> "x-secret"
    [] name = "Content-Type" -> "content-type"
    [] OTHER -> name

\* Header redaction: the header map without the names of the redact list,
\* names compared case-insensitively.
redactHeaders(headers, redactList) ==
  {h \in headers : \A r \in redactList : ToLower(r) # ToLower(h)}

\* apt.BuildPayload / apt.BuildFastHTTPPayload: the record of what the
\* middleware hands over, with the headers redacted.
BuildPayload(sdk, statusCode, reqHeader, reqB, respB, respHeader, redact, errs) ==
  [sdk |-> sdk, statusCode |-> statusCode,
   reqHeader |-> redactHeaders(reqHeader, redact), reqBody |-> reqB,
   respBody |-> respB, respHeader |-> redactHeaders(respHeader, redact),
   errors |-> errs]

\* apt.CreateSpan(payload, aptConfig, span): attach the payload to the span.
CreateSpan(p) == attached' = Append(attached, p)

\* ------------------------------------------------- Gorilla: entry
\* Faulty variant: the request body is captured whatever the toggle says.
GorillaEnterAlwaysCaptures ==
  /\ fw = "gorilla" /\ pc = "start"
  /\ span' = "open"
  /\ LET ra == ReadAll(reqBody)
     IN IF TRUE
          THEN /\ reqBuf' = ra.data
               /\ errorList' = ReportError(<< >>, ra.err)
               /\ reqBody' = NopCloser(ra.data)
          ELSE /\ reqBuf' = << >>
               /\ errorList' = << >>
               /\ UNCHANGED reqBody
  /\ rec' = NewRecorder(config.CaptureResponseBody)
  /\ pc' = "handler"
  /\ UNCHANGED <<fw, config, client, attached, handlerRead, readState, wire,
                 calls, resHeader, fresp, respHeaders, payload, panicking,
                 thrown, handlerErr, reported, recovered, result>>
  /\ UNCHANGED redactVars
  /\ UNCHANGED concVars

\* gorilla.go 46-68: start the span, create the error list, capture the
\* request body, install the recorder.
GorillaEnter ==
  /\ fw = "gorilla" /\ pc = "start"
  /\ span' = "open"
  /\ LET ra == ReadAll(reqBody)
     IN IF config.CaptureRequestBody
          THEN /\ reqBuf' = ra.data
               /\ errorList' = ReportError(<< >>, ra.err)
               /\ reqBody' = NopCloser(ra.data)
          ELSE /\ reqBuf' = << >>
               /\ errorList' = << >>
               /\ UNCHANGED reqBody
  /\ rec' = NewRecorder(config.CaptureResponseBody)
  /\ pc' = "handler"
  /\ UNCHANGED <<fw, config, client, attached, handlerRead, readState, wire,
                 calls, resHeader, fresp, respHeaders, payload, panicking,
                 thrown, handlerErr, reported, recovered, result>>
  /\ UNCHANGED redactVars
  /\ UNCHANGED concVars

\* ------------------------------------------------- Fiber: entry
\* fiber.go 44-61: start the span, create the error list, snapshot the
\* response headers.
FiberEnter ==
  /\ fw = "fiber" /\ pc = "start"
  /\ span' = "open"
  /\ errorList' = << >>
  /\ respHeaders' = resHeader
  /\ pc' = "handler"
  /\ UNCHANGED <<fw, config, client, attached, reqBody, reqBuf, handlerRead,
                 readState, rec, wire, calls, resHeader, fresp, payload,
                 panicking, thrown, handlerErr, reported, recovered, result>>
  /\ UNCHANGED redactVars
  /\ UNCHANGED concVars

\* ------------------------------------------------- the downstream handler
\* One Read of req.Body by the handler: a byte, EOF, or the read error.
HandlerRead ==
  /\ fw = "gorilla" /\ pc = "handler" /\ readState = "reading"
  /\ IF reqBody.pos = reqBody.failAt
       THEN readState' = "err" /\ UNCHANGED <<reqBody, handlerRead>>
       ELSE IF reqBody.pos = Len(reqBody.data)
         THEN readState' = "eof" /\ UNCHANGED <<reqBody, handlerRead>>
         ELSE /\ handlerRead' = Append(handlerRead, reqBody.data[reqBody.pos + 1])
              /\ reqBody' = [reqBody EXCEPT !.pos = reqBody.pos + 1]
              /\ UNCHANGED readState
  /\ UNCHANGED <<fw, config, client, pc, span, attached, errorList, reqBuf,
                 rec, wire, calls, resHeader, fresp, respHeaders, payload,
                 panicking, thrown, handlerErr, reported, recovered, result>>
  /\ UNCHANGED redactVars
  /\ UNCHANGED concVars

\* w.WriteHeader(code) on the recorder.
HandlerWriteHeader ==
  /\ fw = "gorilla" /\ pc = "handler" /\ Len(calls) < MaxCalls
  /\ \E code \in StatusCodes :
       LET s == WriteHeader(rec, wire, code)
       IN /\ rec' = s.rec
          /\ wire' = s.wire
          /\ calls' = Append(calls, WireHeader(code))
  /\ UNCHANGED <<fw, config, client, pc, span, attached, errorList, reqBody,
                 reqBuf, handlerRead, readState, resHeader, fresp, respHeaders,
                 payload, panicking, thrown, handlerErr, reported, recovered,
                 result>>
  /\ UNCHANGED redactVars
  /\ UNCHANGED concVars

\* w.Write(b) on the recorder.
HandlerWrite ==
  /\ fw = "gorilla" /\ pc = "handler" /\ Len(calls) < MaxCalls
  /\ \E b \in Chunks :
       LET s == Write(rec, wire, b)
       IN /\ rec' = s.rec
          /\ wire' = s.wire
          /\ calls' = Append(calls, WireWrite(b))
  /\ UNCHANGED <<fw, config, client, pc, span, attached, errorList, reqBody,
                 reqBuf, handlerRead, readState, resHeader, fresp, respHeaders,
                 payload, panicking, thrown, handlerErr, reported, recovered,
                 result>>
  /\ UNCHANGED redactVars
  /\ UNCHANGED concVars

\* w.Header().Set(h, ..) / ctx.Set(h, ..): the recorder embeds the
\* ResponseWriter, so Header() is the underlying header map.
HandlerSetHeader ==
  /\ pc = "handler"
  /\ \E h \in HeaderNames \ resHeader : resHeader' = resHeader \cup {h}
  /\ UNCHANGED <<fw, config, client, pc, span, attached, errorList, reqBody,
                 reqBuf, handlerRead, readState, rec, wire, calls, fresp,
                 respHeaders, payload, panicking, thrown, handlerErr, reported,
                 recovered, result>>
  /\ UNCHANGED redactVars
  /\ UNCHANGED concVars

\* ctx.Status(code) of a Fiber handler.
FiberStatus ==
  /\ fw = "fiber" /\ pc = "handler" /\ Len(calls) < MaxCalls
  /\ \E code \in StatusCodes :
       /\ fresp' = [fresp EXCEPT !.status = code]
       /\ calls' = Append(calls, WireHeader(code))
  /\ UNCHANGED <<fw, config, client, pc, span, attached, errorList, reqBody,
                 reqBuf, handlerRead, readState, rec, wire, resHeader,
                 respHeaders, payload, panicking, thrown, handlerErr, reported,
                 recovered, result>>
  /\ UNCHANGED redactVars
  /\ UNCHANGED concVars

\* ctx.Write(b) of a Fiber handler.
FiberWrite ==
  /\ fw = "fiber" /\ pc = "handler" /\ Len(calls) < MaxCalls
  /\ \E b \in Chunks :
       /\ fresp' = [fresp EXCEPT !.body = fresp.body \o b]
       /\ calls' = Append(calls, WireWrite(b))
  /\ UNCHANGED <<fw, config, client, pc, span, attached, errorList, reqBody,
                 reqBuf, handlerRead, readState, rec, wire, resHeader,
                 respHeaders, payload, panicking, thrown, handlerErr, reported,
                 recovered, result>>
  /\ UNCHANGED redactVars
  /\ UNCHANGED concVars

\* ReportError(ctx, err) called by the handler with the request's context.
HandlerReportError ==
  /\ pc = "handler" /\ Len(reported) < MaxErrors
  /\ \E m \in Messages :
       LET e == [typ |-> "error", msg |-> m]
       IN /\ errorList' = ReportError(errorList, e)
          /\ reported' = Append(reported, e)
  /\ UNCHANGED <<fw, config, client, pc, span, attached, reqBody, reqBuf,
                 handlerRead, readState, rec, wire, calls, resHeader, fresp,
                 respHeaders, payload, panicking, thrown, handlerErr, recovered,
                 result>>
  /\ UNCHANGED redactVars
  /\ UNCHANGED concVars

\* The handler returns (next.ServeHTTP returns; ctx.Next() returns an error).
HandlerReturn ==
  /\ pc = "handler"
  /\ \E e \in ReturnValues :
       /\ fw = "gorilla" => e = NoErr
       /\ handlerErr' = e
  /\ pc' = "returned"
  /\ UNCHANGED <<fw, config, client, span, attached, errorList, reqBody,
                 reqBuf, handlerRead, readState, rec, wire, calls, resHeader,
                 fresp, respHeaders, payload, panicking, thrown, reported,
                 recovered, result>>
  /\ UNCHANGED redactVars
  /\ UNCHANGED concVars

\* The handler panics with value v: the middleware's deferred calls run.
HandlerPanic ==
  /\ pc = "handler"
  /\ \E v \in PanicValues :
       /\ thrown' = v
       /\ panicking' = v
  /\ pc' = IF fw = "fiber" THEN "deferred2" ELSE "deferred1"
  /\ UNCHANGED <<fw, config, client, span, attached, errorList, reqBody,
                 reqBuf, handlerRead, readState, rec, wire, calls, resHeader,
                 fresp, respHeaders, payload, handlerErr, reported, recovered,
                 result>>
  /\ UNCHANGED redactVars
  /\ UNCHANGED concVars

\* ------------------------------------------------- Gorilla: after the handler
\* Faulty variant: the payload is built without the header redact list.
GorillaPayloadNoRedactList ==
  LET resBody == IF config.CaptureResponseBody THEN rec.body ELSE << >>
      statusCode == StatusCode(rec)
  IN BuildPayload("GoGorillaMux", statusCode, RequestHeader, reqBuf, resBody,
                  resHeader, {}, errorList)

\* gorilla.go 71-103: the recorder's body and status, and the arguments of
\* BuildPayload.
GorillaPayload ==
  LET resBody == IF config.CaptureResponseBody THEN rec.body ELSE << >>
      statusCode == StatusCode(rec)
  IN BuildPayload("GoGorillaMux", statusCode, RequestHeader, reqBuf, resBody,
                  resHeader, config.RedactHeaders, errorList)

\* gorilla.go 71-103: take the recorder's body and status, build the payload.
GorillaBuildPayload ==
  /\ fw = "gorilla" /\ pc = "returned"
  /\ payload' = GorillaPayload
  /\ pc' = "built"
  /\ UNCHANGED <<fw, config, client, span, attached, errorList, reqBody,
                 reqBuf, handlerRead, readState, rec, wire, calls, resHeader,
                 fresp, respHeaders, panicking, thrown, handlerErr, reported,
                 recovered, result>>
  /\ UNCHANGED redactVars
  /\ UNCHANGED concVars

\* Faulty variant: the attached payload shares the request's live error list.
GorillaCreateSpanLiveList ==
  /\ fw = "gorilla" /\ pc = "built"
  /\ CreateSpan([payload EXCEPT !.errors = errorList])
  /\ result' = Void
  /\ pc' = "deferred1"
  /\ UNCHANGED <<fw, config, client, span, errorList, reqBody, reqBuf,
                 handlerRead, readState, rec, wire, calls, resHeader, fresp,
                 respHeaders, payload, panicking, thrown, handlerErr, reported,
                 recovered>>
  /\ UNCHANGED redactVars
  /\ UNCHANGED concVars

\* gorilla.go 104-105: attach the payload; the handler function returns.
GorillaCreateSpan ==
  /\ fw = "gorilla" /\ pc = "built"
  /\ CreateSpan(payload)
  /\ result' = Void
  /\ pc' = "deferred1"
  /\ UNCHANGED <<fw, config, client, span, errorList, reqBody, reqBuf,
                 handlerRead, readState, rec, wire, calls, resHeader, fresp,
                 respHeaders, payload, panicking, thrown, handlerErr, reported,
                 recovered>>
  /\ UNCHANGED redactVars
  /\ UNCHANGED concVars

\* ------------------------------------------------- Fiber: after the handler
\* fiber.go 85-95: build the payload from the response as it stands.
FiberBuildPayload ==
  /\ fw = "fiber" /\ pc = "returned"
  /\ payload' = BuildPayload("GoFiber", fresp.status, RequestHeader,
                             client.data, fresp.body, respHeaders,
                             config.RedactHeaders, errorList)
  /\ pc' = "built"
  /\ UNCHANGED <<fw, config, client, span, attached, errorList, reqBody,
                 reqBuf, handlerRead, readState, rec, wire, calls, resHeader,
                 fresp, respHeaders, panicking, thrown, handlerErr, reported,
                 recovered, result>>
  /\ UNCHANGED redactVars
  /\ UNCHANGED concVars

\* fiber.go 97.
FiberCreateSpan ==
  /\ fw = "fiber" /\ pc = "built"
  /\ CreateSpan(payload)
  /\ pc' = "returning"
  /\ UNCHANGED <<fw, config, client, span, errorList, reqBody, reqBuf,
                 handlerRead, readState, rec, wire, calls, resHeader, fresp,
                 respHeaders, payload, panicking, thrown, handlerErr, reported,
                 recovered, result>>
  /\ UNCHANGED redactVars
  /\ UNCHANGED concVars

\* Faulty variant: the middleware returns nil whatever the handler returned.
FiberReturnNil ==
  /\ fw = "fiber" /\ pc = "returning"
  /\ result' = NoErr
  /\ pc' = "deferred2"
  /\ UNCHANGED <<fw, config, client, span, attached, errorList, reqBody,
                 reqBuf, handlerRead, readState, rec, wire, calls, resHeader,
                 fresp, respHeaders, payload, panicking, thrown, handlerErr,
                 reported, recovered>>
  /\ UNCHANGED redactVars
  /\ UNCHANGED concVars

\* fiber.go 98: return err; the deferred calls run next.
FiberReturn ==
  /\ fw = "fiber" /\ pc = "returning"
  /\ result' = handlerErr
  /\ pc' = "deferred2"
  /\ UNCHANGED <<fw, config, client, span, attached, errorList, reqBody,
                 reqBuf, handlerRead, readState, rec, wire, calls, resHeader,
                 fresp, respHeaders, payload, panicking, thrown, handlerErr,
                 reported, recovered>>
  /\ UNCHANGED redactVars
  /\ UNCHANGED concVars

\* errors.New(text).
ErrorsNew(text) == [typ |-> "error", msg |-> text]

\* The run-time panic of a failed type assertion err.(string).
TypeAssertionError ==
  [typ |-> "error", msg |-> "interface conversion: interface {} is not string"]

\* Faulty variant: a string panic becomes an error with a fixed text.
ToErrorFixedText(v) ==
  IF v.typ = "error" THEN [ok |-> TRUE, err |-> v]
  ELSE IF v.typ = "string" THEN [ok |-> TRUE, err |-> ErrorsNew("panic")]
  ELSE [ok |-> FALSE, err |-> TypeAssertionError]

\* fiber.go 63-66: the error the deferred closure makes of the recovered
\* value v; ok is FALSE where the assertion err.(string) panics.
ToError(v) ==
  IF v.typ = "error" THEN [ok |-> TRUE, err |-> v]
  ELSE IF v.typ = "string" THEN [ok |-> TRUE, err |-> ErrorsNew(v.msg)]
  ELSE [ok |-> FALSE, err |-> TypeAssertionError]

\* fiber.go 62-67: the deferred closure. recover() stops the panic; the value
\* is turned into an error and reported. Without a panic the closure does
\* nothing.
FiberRecover ==
  /\ fw = "fiber" /\ pc = "deferred2"
  /\ IF panicking = NoPanic
       THEN /\ pc' = "deferred1"
            /\ UNCHANGED <<panicking, recovered, errorList>>
       ELSE LET c == ToError(panicking)
            IN IF c.ok
                 THEN /\ recovered' = c.err
                      /\ panicking' = NoPanic
                      /\ errorList' = ReportError(errorList, c.err)
                      /\ pc' = "recovered"
                 ELSE /\ panicking' = c.err
                      /\ pc' = "deferred1"
                      /\ UNCHANGED <<recovered, errorList>>
  /\ UNCHANGED <<fw, config, client, span, attached, reqBody, reqBuf,
                 handlerRead, readState, rec, wire, calls, resHeader, fresp,
                 respHeaders, payload, thrown, handlerErr, reported, result>>
  /\ UNCHANGED redactVars
  /\ UNCHANGED concVars

\* Faulty variant: the panic path reports the status of the response.
PanicPayloadResponseStatus ==
  BuildPayload("GoFiber", fresp.status, RequestHeader, client.data,
               fresp.body, respHeaders, config.RedactHeaders, errorList)

\* fiber.go 68-78: the arguments of BuildFastHTTPPayload on the panic path.
PanicPayload ==
  BuildPayload("GoFiber", StatusInternalServerError, RequestHeader,
               client.data, fresp.body, respHeaders, config.RedactHeaders,
               errorList)

\* fiber.go 68-78: the payload of the panic path.
FiberPanicPayload ==
  /\ fw = "fiber" /\ pc = "recovered"
  /\ payload' = PanicPayload
  /\ pc' = "pbuilt"
  /\ UNCHANGED <<fw, config, client, span, attached, errorList, reqBody,
                 reqBuf, handlerRead, readState, rec, wire, calls, resHeader,
                 fresp, respHeaders, panicking, thrown, handlerErr, reported,
                 recovered, result>>
  /\ UNCHANGED redactVars
  /\ UNCHANGED concVars

\* fiber.go 79.
FiberPanicCreateSpan ==
  /\ fw = "fiber" /\ pc = "pbuilt"
  /\ CreateSpan(payload)
  /\ pc' = "pattached"
  /\ UNCHANGED <<fw, config, client, span, errorList, reqBody, reqBuf,
                 handlerRead, readState, rec, wire, calls, resHeader, fresp,
                 respHeaders, payload, panicking, thrown, handlerErr, reported,
                 recovered, result>>
  /\ UNCHANGED redactVars
  /\ UNCHANGED concVars

\* fiber.go 80: panic(err).
FiberRepanic ==
  /\ fw = "fiber" /\ pc = "pattached"
  /\ panicking' = recovered
  /\ pc' = "deferred1"
  /\ UNCHANGED <<fw, config, client, span, attached, errorList, reqBody,
                 reqBuf, handlerRead, readState, rec, wire, calls, resHeader,
                 fresp, respHeaders, payload, thrown, handlerErr, reported,
                 recovered, result>>
  /\ UNCHANGED redactVars
  /\ UNCHANGED concVars

\* ------------------------------------------------- both: defer span.End()
\* Faulty variant: span.End() is a plain last statement, not a deferred call.
SpanEndNotDeferred ==
  /\ pc = "deferred1" /\ panicking = NoPanic
  /\ span' = "ended"
  /\ pc' = "done"
  /\ UNCHANGED <<fw, config, client, attached, errorList, reqBody, reqBuf,
                 handlerRead, readState, rec, wire, calls, resHeader, fresp,
                 respHeaders, payload, panicking, thrown, handlerErr, reported,
                 recovered, result>>
  /\ UNCHANGED redactVars
  /\ UNCHANGED concVars

\* gorilla.go 48, fiber.go 47: the span ends; the middleware returns, or the
\* panic goes on to the caller.
SpanEnd ==
  /\ pc = "deferred1"
  /\ span' = "ended"
  /\ pc' = "done"
  /\ UNCHANGED <<fw, config, client, attached, errorList, reqBody, reqBuf,
                 handlerRead, readState, rec, wire, calls, resHeader, fresp,
                 respHeaders, payload, panicking, thrown, handlerErr, reported,
                 recovered, result>>
  /\ UNCHANGED redactVars
  /\ UNCHANGED concVars

Next ==
  \/ GorillaEnter
  \/ FiberEnter
  \/ HandlerRead
  \/ HandlerWriteHeader
  \/ HandlerWrite
  \/ HandlerSetHeader
  \/ FiberStatus
  \/ FiberWrite
  \/ HandlerReportError
  \/ HandlerReturn
  \/ HandlerPanic
  \/ GorillaBuildPayload
  \/ GorillaCreateSpan
  \/ FiberBuildPayload
  \/ FiberCreateSpan
  \/ FiberReturn
  \/ FiberRecover
  \/ FiberPanicPayload
  \/ FiberPanicCreateSpan
  \/ FiberRepanic
  \/ SpanEnd

Spec == Init /\ [][Next]_vars

\* One request: the same state machine started from one configuration and
\* one client stream.
InitFair ==
  /\ Init
  /\ config = [CaptureRequestBody |-> TRUE, CaptureResponseBody |-> TRUE,
               RedactHeaders |-> {"X-Secret"}]
  /\ client = Stream(<<"p", "q">>, -1)

\* The steps of the middleware itself once the handler has ended: straight
\* code and deferred calls, which the goroutine runs to the end.
AfterHandler ==
  \/ GorillaBuildPayload
  \/ GorillaCreateSpan
  \/ FiberBuildPayload
  \/ FiberCreateSpan
  \/ FiberReturn
  \/ FiberRecover
  \/ FiberPanicPayload
  \/ FiberPanicCreateSpan
  \/ FiberRepanic
  \/ SpanEnd

\* The handler may run for ever; the middleware's own steps are taken.
FairSpec == InitFair /\ [][Next]_vars /\ WF_vars(AfterHandler)

\* ------------------------------------------------- reports after the build
\* The error a goroutine started by the handler reports late.
LateError == [typ |-> "error", msg |-> "late"]

\* How many late errors list holds.
LateCount(list) ==
  Cardinality({i \in DOMAIN list : list[i] = BuildError(LateError)})

\* ReportError(ctx, err) with the request's context, called once the payload
\* has been built: the request's list grows, the payload variable is not
\* touched.
LateReportError ==
  /\ payload # NoPayload /\ LateCount(errorList) < MaxLate
  /\ errorList' = ReportError(errorList, LateError)
  /\ UNCHANGED <<fw, config, client, pc, span, attached, reqBody, reqBuf,
                 handlerRead, readState, rec, wire, calls, resHeader, fresp,
                 respHeaders, payload, panicking, thrown, handlerErr, reported,
                 recovered, result>>
  /\ UNCHANGED redactVars
  /\ UNCHANGED concVars

\* Requests with both bodies captured and no header redacted.
InitLate ==
  /\ Init
  /\ config = [CaptureRequestBody |-> TRUE, CaptureResponseBody |-> TRUE,
               RedactHeaders |-> {}]

NextLate == Next \/ LateReportError

SpecLate == InitLate /\ [][NextLate]_vars

\* ------------------------------------------------- requests side by side
\* Faulty variant: one error list, made once, serves every request.
NewErrorListShared(h) ==
  IF h = << >>
    THEN [addr |-> 1, heap |-> <<[items |-> << >>, locked |-> FALSE]>>]
    ELSE [addr |-> 1, heap |-> h]

\* gorilla.go 53, fiber.go 50: errorList := []apt.ATError{} - a new, empty
\* list of the request's own.
NewErrorList(h) ==
  [addr |-> Len(h) + 1, heap |-> Append(h, [items |-> << >>, locked |-> FALSE])]

\* The msgID argument of the payload builders.
WithMessageID(p, msgID) == [msgID |-> msgID] @@ p

\* gorilla.go 46-68, fiber.go 44-61: the request's own span, message id,
\* error list, captured request body and recorder.
ConcEnter(r) ==
  /\ reqs[r].pc = "start"
  /\ LET a == NewErrorList(heap)
     IN /\ heap' = a.heap
        /\ uuids' = uuids + 1
        /\ reqs' = [reqs EXCEPT ![r] =
             [@ EXCEPT !.pc = "handler", !.span = "open",
                       !.msgID = uuids + 1, !.list = a.addr,
                       !.reqBuf = IF fw = "gorilla" /\ config.CaptureRequestBody
                                    THEN ReadAll(Stream(BodyOf[r], -1)).data
                                    ELSE << >>,
                       !.rec = NewRecorder(config.CaptureResponseBody)]]
  /\ UNCHANGED gor
  /\ UNCHANGED mwVars
  /\ UNCHANGED redactVars

\* The error goroutine w of request r reports.
WorkerError(r, w) == [typ |-> "error", msg |-> <<r, w>>]

\* Faulty variant: the list is read without waiting for the lock.
WorkerLockNoExclusion(r, w) ==
  /\ reqs[r].pc = "handler" /\ gor[r][w].pc = "ready"
  /\ gor' = [gor EXCEPT ![r][w] = [pc |-> "locked", tmp |-> heap[reqs[r].list].items]]
  /\ heap' = [heap EXCEPT ![reqs[r].list].locked = TRUE]
  /\ UNCHANGED <<reqs, uuids>>
  /\ UNCHANGED mwVars
  /\ UNCHANGED redactVars

\* ReportError(ctx, err) in a goroutine of the handler, first half: the list
\* behind the context's pointer is locked and read.
WorkerLock(r, w) ==
  /\ reqs[r].pc = "handler" /\ gor[r][w].pc = "ready"
  /\ ~heap[reqs[r].list].locked
  /\ gor' = [gor EXCEPT ![r][w] = [pc |-> "locked", tmp |-> heap[reqs[r].list].items]]
  /\ heap' = [heap EXCEPT ![reqs[r].list].locked = TRUE]
  /\ UNCHANGED <<reqs, uuids>>
  /\ UNCHANGED mwVars
  /\ UNCHANGED redactVars

\* ReportError, second half: the list read, with the error appended, is
\* stored and the lock released.
WorkerAppend(r, w) ==
  /\ gor[r][w].pc = "locked"
  /\ heap' = [heap EXCEPT ![reqs[r].list] =
                [items |-> ReportError(gor[r][w].tmp, WorkerError(r, w)),
                 locked |-> FALSE]]
  /\ gor' = [gor EXCEPT ![r][w] = [pc |-> "done", tmp |-> << >>]]
  /\ UNCHANGED <<reqs, uuids>>
  /\ UNCHANGED mwVars
  /\ UNCHANGED redactVars

\* The handler of request r answers: a status, then its bytes.
ConcRespond(r) ==
  /\ reqs[r].pc = "handler" /\ reqs[r].code = 0
  /\ \E code \in StatusCodes :
       LET q == reqs[r]
           s1 == WriteHeader(q.rec, q.wire, code)
           s2 == Write(s1.rec, s1.wire, RespOf[r])
       IN reqs' = [reqs EXCEPT ![r] =
            IF fw = "gorilla"
              THEN [q EXCEPT !.code = code, !.rec = s2.rec, !.wire = s2.wire]
              ELSE [q EXCEPT !.code = code,
                             !.fresp = [status |-> code, body |-> RespOf[r]]]]
  /\ UNCHANGED <<gor, heap, uuids>>
  /\ UNCHANGED mwVars
  /\ UNCHANGED redactVars

\* The handler returns once its goroutines have finished.
ConcReturn(r) ==
  /\ reqs[r].pc = "handler"
  /\ \A w \in Workers : gor[r][w].pc = "done"
  /\ reqs' = [reqs EXCEPT ![r].pc = "returned"]
  /\ UNCHANGED <<gor, heap, uuids>>
  /\ UNCHANGED mwVars
  /\ UNCHANGED redactVars

\* gorilla.go 71-103, fiber.go 85-95: the payload, from the request's own
\* locals.
ConcPayload(r) ==
  LET q == reqs[r]
      errs == heap[q.list].items
  IN WithMessageID(
       IF fw = "gorilla"
         THEN BuildPayload("GoGorillaMux", StatusCode(q.rec), RequestHeader,
                           q.reqBuf,
                           IF config.CaptureResponseBody THEN q.rec.body ELSE << >>,
                           {}, config.RedactHeaders, errs)
         ELSE BuildPayload("GoFiber", q.fresp.status, RequestHeader, BodyOf[r],
                           q.fresp.body, {}, config.RedactHeaders, errs),
       q.msgID)

ConcBuildPayload(r) ==
  /\ reqs[r].pc = "returned"
  /\ reqs' = [reqs EXCEPT ![r] = [@ EXCEPT !.pc = "built", !.payload = ConcPayload(r)]]
  /\ UNCHANGED <<gor, heap, uuids>>
  /\ UNCHANGED mwVars
  /\ UNCHANGED redactVars

\* gorilla.go 104, fiber.go 97: the payload is attached to the request's span;
\* gorilla.go 48, fiber.go 47: the span ends.
ConcCreateSpan(r) ==
  /\ reqs[r].pc = "built"
  /\ reqs' = [reqs EXCEPT ![r] =
       [@ EXCEPT !.pc = "done", !.span = "ended",
                 !.attached = Append(@, reqs[r].payload)]]
  /\ UNCHANGED <<gor, heap, uuids>>
  /\ UNCHANGED mwVars
  /\ UNCHANGED redactVars

\* Two requests through one middleware instance: one Config, read by all.
InitConc ==
  /\ Init
  /\ config = [CaptureRequestBody |-> TRUE, CaptureResponseBody |-> TRUE,
               RedactHeaders |-> {}]
  /\ client = Stream(<< >>, -1)

NextConc ==
  \/ \E r \in Reqs : ConcEnter(r)
  \/ \E r \in Reqs : \E w \in Workers : WorkerLock(r, w)
  \/ \E r \in Reqs : \E w \in Workers : WorkerAppend(r, w)
  \/ \E r \in Reqs : ConcRespond(r)
  \/ \E r \in Reqs : ConcReturn(r)
  \/ \E r \in Reqs : ConcBuildPayload(r)
  \/ \E r \in Reqs : ConcCreateSpan(r)

SpecConc == InitConc /\ [][NextConc]_vars

\* ------------------------------------------------- redaction of body fields
\* The redaction marker.
Marker == "[CLIENT_REDACTED]"

\* A captured body: text that does not parse, or parsed structured data, held
\* as the set of its <<path, text>> leaves.
Raw(text) == [kind |-> "raw", text |-> text, fields |-> {}]
Json(fields) == [kind |-> "json", text |-> "", fields |-> fields]

\* Field paths: $.password, $.user, $.user.credit_card.
Paths == {<<"password">>, <<"user">>, <<"user", "credit_card">>}

\* Captured bodies given to the redaction engine.
Bodies ==
  LET pw == {{}, {<<<<"password">>, "secret123">>}, {<<<<"password">>, Marker>>}}
      un == {{}, {<<<<"username">>, "john">>}}
      us == {{}, {<<<<"user">>, "root">>},
             {<<<<"user", "credit_card">>, "4111">>},
             {<<<<"user", "credit_card">>, Marker>>},
             {<<<<"user", "credit_card">>, "4111">>, <<<<"user", "id">>, "7">>}}
  IN {Raw("plain text"), Raw("{\"password\":")}
       \cup {Json(p \cup n \cup u) : p \in pw, n \in un, u \in us}

\* path leads to the leaf at at, or to an object above it.
Under(path, at) ==
  /\ Len(path) <= Len(at)
  /\ \A i \in DOMAIN path : path[i] = at[i]

\* Faulty variant: a value that already is the marker is marked again.
MaskTwice(fields, path) ==
  IF <<path, Marker>> \in fields
    THEN "[CLIENT_REDACTED][CLIENT_REDACTED]" ELSE Marker

\* The value put in the place of a redacted value: the fixed marker.
Mask(fields, path) == Marker

\* What lies at path is replaced by the marker; a path that matches nothing
\* changes nothing.
RedactValue(fields, path) ==
  IF \E f \in fields : Under(path, f[1])
    THEN {f \in fields : ~Under(path, f[1])} \cup {<<path, Mask(fields, path)>>}
    ELSE fields

\* Every path of the set applied in turn.
RECURSIVE RedactAll(_, _)
RedactAll(fields, paths) ==
  IF paths = {} THEN fields
  ELSE LET p == CHOOSE q \in paths : TRUE
       IN RedactAll(RedactValue(fields, p), paths \ {p})

\* Structured-field redaction of a captured body: a body that does not parse
\* is left as it is.
RedactBody(body, paths) ==
  IF body.kind = "raw" THEN body ELSE Json(RedactAll(body.fields, paths))

\* A body and a set of paths are handed to the redaction engine.
InitRedact ==
  /\ Init
  /\ fw = "gorilla"
  /\ config = [CaptureRequestBody |-> TRUE, CaptureResponseBody |-> TRUE,
               RedactHeaders |-> {}]
  /\ client = Stream(<< >>, -1)

\* The input to redact.
RedactInputs == [body : Bodies, paths : SUBSET Paths]

\* The engine is given its input.
RedactBegin ==
  /\ rin = NoInput
  /\ rin' \in RedactInputs
  /\ rout' = << >>
  /\ UNCHANGED mwVars
  /\ UNCHANGED concVars

\* One more pass: the body as it stands is redacted with the same paths.
RedactPass ==
  /\ rin # NoInput /\ Len(rout) < MaxPasses
  /\ rout' = Append(rout, RedactBody(IF rout = << >> THEN rin.body
                                     ELSE rout[Len(rout)], rin.paths))
  /\ UNCHANGED rin
  /\ UNCHANGED mwVars
  /\ UNCHANGED concVars

NextRedact == RedactBegin \/ RedactPass

SpecRedact == InitRedact /\ [][NextRedact]_vars

\* ======================================================== properties
IsWrite(c) == c.op = "Write"
IsHeader(c) == c.op = "WriteHeader"

\* The status a client is sent by a ResponseWriter that received the calls
\* of log: the first WriteHeader's code, 200 when a Write came first, 0 when
\* nothing was sent yet.
SentStatus(log) ==
  IF log = << >> THEN 0
  ELSE IF IsHeader(log[1]) THEN log[1].code ELSE 200

IsPrefix(s, t) == Len(s) <= Len(t) /\ \A i \in 1..Len(s) : s[i] = t[i]

\* C1: Fiber - when the middleware has returned or re-raised, exactly one
\* payload has been attached to the span, however the handler ended.
C1_FiberExactlyOnePayload ==
  (fw = "fiber" /\ pc = "done") => Len(attached) = 1

\* C2: Gorilla - when the middleware is done, exactly one payload has been
\* attached to the span, whether the handler returned or panicked.
C2_GorillaExactlyOnePayload ==
  (fw = "gorilla" /\ pc = "done") => Len(attached) = 1

\* C3: the panic value that leaves the middleware is the value the handler
\* panicked with.
C3_PanicValuePreserved ==
  (pc = "done" /\ thrown # NoPanic) => panicking = thrown

\* C4: when the first call on the recorder is a Write, StatusCode() is 200
\* after it and after every later call.
C4_WriteFirstIs200 ==
  (fw = "gorilla" /\ calls # << >> /\ IsWrite(calls[1])) => StatusCode(rec) = 200

C4_Witness ==
  /\ fw = "gorilla" /\ Len(calls) = 2
  /\ IsWrite(calls[1]) /\ calls[2] = WireHeader(404)
  /\ StatusCode(rec) = 200

\* C5: the first recorded status wins - after a first WriteHeader(c) the
\* recorder reports c, and once a status is recorded no later call changes
\* what StatusCode() returns.
C5_FirstStatusWins ==
  /\ []((fw = "gorilla" /\ calls # << >> /\ IsHeader(calls[1]))
          => StatusCode(rec) = calls[1].code)
  /\ [][rec.status => (rec'.status /\ StatusCode(rec') = StatusCode(rec))]_vars

C5_Witness ==
  /\ fw = "gorilla"
  /\ calls = <<WireHeader(201), WireWrite(<<"x">>)>>
  /\ StatusCode(rec) = 201

\* C6: a handler that returns without Write and without WriteHeader leaves
\* StatusCode() at 200, and the payload is built with status 200 and an empty
\* response body.
C6_EmptyResponse ==
  (fw = "gorilla" /\ calls = << >> /\ pc \in {"returned", "built", "deferred1", "done"}
     /\ thrown = NoPanic)
  => /\ StatusCode(rec) = 200
     /\ payload # NoPayload => (payload.statusCode = 200 /\ payload.respBody = << >>)
     /\ \A i \in DOMAIN attached :
          attached[i].statusCode = 200 /\ attached[i].respBody = << >>

C6_Witness ==
  /\ fw = "gorilla" /\ calls = << >> /\ pc = "done" /\ thrown = NoPanic
  /\ config.CaptureResponseBody
  /\ Len(attached) = 1 /\ attached[1].statusCode = 200

\* C7: with and without request-body capture the handler reads, from the
\* start of req.Body, exactly the bytes the client's stream yields.
C7_BodyPassThrough ==
  (fw = "gorilla" /\ pc # "start")
  => /\ reqBody.pos = Len(handlerRead)
     /\ IsPrefix(handlerRead, ReadAll(client).data)
     /\ readState # "reading" => handlerRead = ReadAll(client).data

C7_Witness ==
  /\ fw = "gorilla" /\ config.CaptureRequestBody
  /\ readState = "eof" /\ handlerRead = <<"p", "q">>

C9_PanicStatus500 ==
  (fw = "fiber" /\ thrown # NoPanic)
  => \A i \in DOMAIN attached : attached[i].statusCode = 500

C9_Witness ==
  /\ fw = "fiber" /\ thrown # NoPanic /\ fresp.status = 201
  /\ Len(attached) = 1 /\ attached[1].statusCode = 500

\* C10: Fiber - when the handler panics having reported no error, the error
\* list of the attached payload is one entry, carrying the panic's message.
C10_PanicErrorEntry ==
  (fw = "fiber" /\ thrown # NoPanic /\ reported = << >>)
  => \A i \in DOMAIN attached :
       attached[i].errors = <<[message |-> thrown.msg]>>

C10_Witness ==
  /\ fw = "fiber" /\ thrown.typ = "string" /\ reported = << >>
  /\ Len(attached) = 1 /\ Len(attached[1].errors) = 1

\* C11: Fiber - when the handler returned e from ctx.Next(), the middleware
\* returns exactly e to the framework.
C11_OutcomePreserved ==
  (fw = "fiber" /\ pc = "done" /\ thrown = NoPanic) => result = handlerErr

C11_Witness ==
  /\ fw = "fiber" /\ pc = "done" /\ thrown = NoPanic
  /\ handlerErr.typ = "error" /\ result = handlerErr
  /\ Len(attached) = 1

\* C12: no header whose name is in RedactHeaders, in any spelling, is in the
\* request or response header map of an attached payload.
C12_RedactedHeadersAbsent ==
  \A i \in DOMAIN attached :
    \A r \in config.RedactHeaders :
      \A h \in attached[i].reqHeader \cup attached[i].respHeader :
        ToLower(h) # ToLower(r)

C12_Witness ==
  /\ fw = "gorilla" /\ config.RedactHeaders = {"x-secret"}
  /\ resHeader = {"X-Secret"}
  /\ Len(attached) = 1
  /\ attached[1].respHeader = {} /\ attached[1].reqHeader = {"Content-Type"}

\* C13: redacting a body again with the same paths gives what the first
\* redaction gave.
C13_RedactionIdempotent ==
  \A i \in DOMAIN rout : rout[i] = rout[1]

C13_Witness ==
  /\ Len(rout) = 2
  /\ rin.body = Json({<<<<"password">>, "secret123">>, <<<<"username">>, "john">>,
                      <<<<"user", "credit_card">>, "4111">>})
  /\ rin.paths = {<<"password">>, <<"user", "credit_card">>}
  /\ rout[2] = Json({<<<<"password">>, Marker>>, <<<<"username">>, "john">>,
                     <<<<"user", "credit_card">>, Marker>>})

\* The bytes of the Write calls of log, in order.
RECURSIVE Written(_)
Written(log) ==
  IF log = << >> THEN << >>
  ELSE (IF IsWrite(Head(log)) THEN Head(log).bytes ELSE << >>) \o Written(Tail(log))

\* How many WriteHeader(code) entries log holds.
HeaderCount(log, code) ==
  Cardinality({i \in DOMAIN log : log[i] = WireHeader(code)})

\* C14: Fiber - once a handler panic leaves the deferred closure, the panic
\* has been reported to the error list and a payload carrying that list has
\* been attached; so the re-raise and the end of the span come after the
\* attach.
C14_PanicOrdering ==
  (fw = "fiber" /\ thrown # NoPanic /\ pc \in {"deferred1", "done"})
  => /\ Len(attached) = 1
     /\ errorList # << >>
     /\ attached[1].errors = errorList

\* C15: in both middlewares the span is ended only once a payload has been
\* attached to it, on return and on panic alike, and it is ended when the
\* middleware is done.
C15_SpanLifecycle ==
  /\ span = "ended" => (Len(attached) = 1 /\ pc = "done")
  /\ pc = "done" => span = "ended"

\* C16: in both middlewares, once the handler has returned or panicked the
\* span is eventually ended, and it is ended by one step only, taken from the
\* open span.
C16_SpanAlwaysClosed ==
  /\ (pc \notin {"start", "handler"}) ~> (span = "ended")
  /\ [][span' = "ended" /\ span # "ended" => span = "open"]_vars
  /\ [][span = "ended" => span' = "ended" /\ pc' = pc]_vars

C16_Witness ==
  /\ span = "ended" /\ pc = "done"
  /\ fw = "gorilla" /\ thrown.typ = "other" /\ panicking = thrown

\* C17: every WriteHeader(code) call on the recorder, the later ones
\* included, reaches the underlying ResponseWriter with its code.
C17_EveryStatusForwarded ==
  fw = "gorilla"
  => \A code \in StatusCodes : HeaderCount(calls, code) <= HeaderCount(wire, code)

\* C18: the underlying ResponseWriter receives no bytes before a status; a
\* first call that is a Write reaches it as WriteHeader(200) followed by the
\* bytes, and the implicit 200 is sent at most once.
C18_ImplicitStatusFirst ==
  fw = "gorilla"
  => /\ \A j \in DOMAIN wire :
          IsWrite(wire[j]) => \E i \in 1..(j - 1) : IsHeader(wire[i])
     /\ (calls # << >> /\ IsWrite(calls[1]))
          => (Len(wire) >= 2 /\ wire[1] = WireHeader(StatusOK) /\ wire[2] = calls[1])
     /\ HeaderCount(wire, StatusOK) <= 1

C18_Witness ==
  /\ fw = "gorilla"
  /\ calls = <<WireWrite(<<"x">>), WireWrite(<<"y">>)>>
  /\ wire = <<WireHeader(StatusOK), WireWrite(<<"x">>), WireWrite(<<"y">>)>>
  /\ config.RedactHeaders = {}

\* C19: the recorder's buffer is the concatenation, in order, of the bytes
\* written when captureBody is true, and is empty when it is false.
C19_ConditionalBuffer ==
  (fw = "gorilla" /\ pc # "start")
  => /\ rec.captureBody = config.CaptureResponseBody
     /\ rec.body = IF rec.captureBody THEN Written(calls) ELSE << >>

C19_Witness ==
  /\ fw = "gorilla" /\ ~rec.captureBody
  /\ calls = <<WireWrite(<<"x">>), WireWrite(<<"y">>)>>
  /\ Len(wire) = 3 /\ rec.body = << >>
  /\ pc = "handler"

\* C20: Gorilla - the payload's request body is empty when CaptureRequestBody
\* is false and the payload's response body is empty when CaptureResponseBody
\* is false; each body is the captured one when its own toggle is true,
\* whatever the other toggle says.
C20_CaptureToggles ==
  (fw = "gorilla" /\ payload # NoPayload)
  => /\ payload.reqBody = IF config.CaptureRequestBody
                            THEN ReadAll(client).data ELSE << >>
     /\ payload.respBody = IF config.CaptureResponseBody
                             THEN Written(calls) ELSE << >>

C20_Witness ==
  /\ fw = "gorilla" /\ pc = "done"
  /\ ~config.CaptureRequestBody /\ config.CaptureResponseBody
  /\ client = Stream(<<"p", "q">>, -1)
  /\ calls = <<WireWrite(<<"x">>), WireWrite(<<"y">>)>>
  /\ Len(attached) = 1
  /\ attached[1].reqBody = << >> /\ attached[1].respBody = <<"x", "y">>

\* C21: Gorilla - when reading the request body fails under
\* CaptureRequestBody, the handler is still run, a payload is attached, and
\* the payload's request body is empty.
C21_CaptureFailureFallback ==
  (fw = "gorilla" /\ config.CaptureRequestBody /\ Fails(client)
     /\ pc = "done" /\ thrown = NoPanic)
  => /\ Len(attached) = 1
     /\ attached[1].reqBody = << >>

\* C25: Fiber - the response headers of an attached payload are the headers
\* of the response after the handler has run, less the redacted ones.
C25_FiberHeadersAfterHandler ==
  (fw = "fiber" /\ thrown = NoPanic)
  => \A i \in DOMAIN attached :
       attached[i].respHeader = redactHeaders(resHeader, config.RedactHeaders)

\* C26: the underlying ResponseWriter receives at most one WriteHeader, no
\* body bytes before it, and its code is what StatusCode() returns.
C26_RecordedStatusOnWire ==
  fw = "gorilla"
  => /\ Cardinality({j \in DOMAIN wire : IsHeader(wire[j])}) <= 1
     /\ \A j \in DOMAIN wire :
          IsHeader(wire[j])
          => /\ \A k \in 1..(j - 1) : ~IsWrite(wire[k])
             /\ wire[j].code = StatusCode(rec)

C26_Witness ==
  /\ fw = "gorilla"
  /\ calls = <<WireHeader(404), WireHeader(201)>>
  /\ wire = <<WireHeader(404)>>
  /\ StatusCode(rec) = 404

\* The errors reported through the request's context before the payload is
\* built, in order: the read error of the Gorilla middleware, the handler's
\* errors, the panic recovered by the Fiber middleware.
ReportedBeforeBuild ==
  (IF fw = "gorilla" /\ config.CaptureRequestBody /\ Fails(client)
     THEN <<BuildError(ReadError)>> ELSE << >>)
  \o [i \in DOMAIN reported |-> BuildError(reported[i])]
  \o (IF fw = "fiber" /\ recovered # NoPanic
        THEN <<BuildError(recovered)>> ELSE << >>)

\* C22: the error list of the payload, as built and as attached, is the
\* sequence of the errors reported before the payload was built; an error
\* reported afterwards is in no payload.
C22_ErrorListSnapshot ==
  /\ payload # NoPayload => payload.errors = ReportedBeforeBuild
  /\ \A i \in DOMAIN attached :
       /\ attached[i].errors = ReportedBeforeBuild
       /\ LateCount(attached[i].errors) = 0

C22_Witness ==
  /\ pc = "done" /\ Len(attached) = 1
  /\ reported # << >>
  /\ attached[1].errors = <<BuildError(ReadError)>> \o
                            [i \in DOMAIN reported |-> BuildError(reported[i])]
  /\ errorList = attached[1].errors \o <<BuildError(LateError)>>

\* The messages of the errors of list.
Reported(list) == {list[i].message : i \in DOMAIN list}

\* C23: when the goroutines of a handler have all reported before the
\* handler returned, the payload's error list holds the error of each of
\* them exactly once, however their calls interleaved.
C23_NoLostUpdates ==
  \A r \in Reqs :
    reqs[r].payload # NoPayload
    => /\ Reported(reqs[r].payload.errors) = {<<r, w>> : w \in Workers}
       /\ Len(reqs[r].payload.errors) = MaxWorkers

C23_Witness ==
  /\ reqs[1].pc = "done" /\ Len(reqs[1].attached) = 1
  /\ reqs[1].attached[1].errors =
       <<BuildError(WorkerError(1, 2)), BuildError(WorkerError(1, 1))>>
  /\ reqs[2].pc = "start"

\* C24: each request's payload holds that request's own message id, status,
\* bodies and errors, and goes to that request's own span; message ids of
\* different requests differ.
C24_RequestIsolation ==
  /\ \A r \in Reqs :
       LET q == reqs[r]
       IN /\ q.payload # NoPayload
               => /\ q.payload.msgID = q.msgID
                  /\ q.payload.statusCode = IF q.code = 0 THEN StatusOK ELSE q.code
                  /\ q.payload.reqBody = BodyOf[r]
                  /\ q.payload.respBody = IF q.code = 0 THEN << >> ELSE RespOf[r]
                  /\ \A m \in Reported(q.payload.errors) : m[1] = r
          /\ \A i \in DOMAIN q.attached : q.attached[i] = q.payload
          /\ q.wire # << >> => q.wire = <<WireHeader(q.code), WireWrite(RespOf[r])>>
  /\ \A r1, r2 \in Reqs :
       (r1 # r2 /\ reqs[r1].pc # "start" /\ reqs[r2].pc # "start")
       => /\ reqs[r1].msgID # reqs[r2].msgID
          /\ reqs[r1].list # reqs[r2].list

C24_Witness ==
  /\ reqs[1].pc = "done" /\ reqs[2].pc = "done"
  /\ reqs[1].msgID = 2 /\ reqs[2].msgID = 1
  /\ reqs[1].attached[1].statusCode = 404 /\ reqs[2].attached[1].statusCode = 200
  /\ reqs[1].attached[1].respBody = <<"x">> /\ reqs[2].attached[1].respBody = << >>
  /\ Reported(reqs[2].attached[1].errors) = {<<2, 1>>, <<2, 2>>}

====
